---- MODULE Spec2Model ----
\* Zero Of Functions (ZOF) solver: the six root-finding methods of
\* ZOF_CLI.py and their duplicates in app.py, run side by side on the same
\* arguments.
\*
\* Numbers.  Python floats are modelled as binary floating-point numbers
\* with a Prec-bit significand and an unbounded exponent: a value is a
\* rational <<n, d>> in lowest terms (d > 0), and every arithmetic
\* operation of the source (plus, minus, times, divide, power) is the exact
\* rational result rounded to the nearest representable value, ties to
\* even, as IEEE-754 does with a 53-bit significand.  Overflow, underflow,
\* infinities and NaN are not modelled.  abs() and the comparisons are exact.
\*
\* Evaluators.  f and g are the callables parse_function builds from an
\* expression; the model takes polynomial expressions, held as their
\* coefficient sequence <<c0, c1, ..., cn>>, and evaluates them term by
\* term in floating point.
EXTENDS Integers, Sequences, FiniteSets, TLC

\* Significand width of the modelled floating-point format.
Prec == 5
\* Largest max_iter a call is given.
MaxIter == 3

----------------------------------------------------------------------------
\* Exact rationals

Abs(n) == IF n < 0 THEN -n ELSE n

RECURSIVE GCD(_, _)
GCD(a, b) == IF b = 0 THEN a ELSE GCD(b, a % b)

RECURSIVE Pow2(_)
Pow2(k) == IF k = 0 THEN 1 ELSE 2 * Pow2(k - 1)

\* n/d in lowest terms, for d > 0
Norm(n, d) == LET g == GCD(Abs(n), d) IN <<n \div g, d \div g>>

Q(n, d) == IF d < 0 THEN Norm(-n, -d) ELSE Norm(n, d)

\* sums over the least common denominator, products reduced crosswise
QAdd(x, y) ==
    LET g == GCD(x[2], y[2])
    IN  Q(x[1] * (y[2] \div g) + y[1] * (x[2] \div g), (x[2] \div g) * y[2])
QSub(x, y) == QAdd(x, <<-y[1], y[2]>>)
QMul(x, y) ==
    LET g == GCD(Abs(x[1]), y[2])
        h == GCD(Abs(y[1]), x[2])
    IN  Q((x[1] \div g) * (y[1] \div h), (x[2] \div h) * (y[2] \div g))
\* y # 0
QDiv(x, y) == QMul(x, IF y[1] < 0 THEN <<-y[2], -y[1]>> ELSE <<y[2], y[1]>>)
QNeg(x) == <<-x[1], x[2]>>
QLt(x, y) == x[1] * y[2] < y[1] * x[2]
QLe(x, y) == x[1] * y[2] <= y[1] * x[2]
QSign(x) == IF x[1] > 0 THEN 1 ELSE IF x[1] < 0 THEN -1 ELSE 0
QMin(x, y) == IF QLt(y, x) THEN y ELSE x
QMax(x, y) == IF QLt(x, y) THEN y ELSE x

Zero == Q(0, 1)
One == Q(1, 1)
Two == Q(2, 1)

RECURSIVE QPow(_, _)
QPow(x, k) == IF k = 0 THEN One ELSE QMul(x, QPow(x, k - 1))

----------------------------------------------------------------------------
\* Floating point: round to nearest, ties to even, Prec significant bits

\* least k >= 0 with n < 2^Prec * d * 2^k
RECURSIVE ShiftDown(_, _)
ShiftDown(n, d) == IF n < Pow2(Prec) * d THEN 0 ELSE 1 + ShiftDown(n, 2 * d)

\* least j >= 0 with n * 2^j >= 2^(Prec-1) * d
RECURSIVE ShiftUp(_, _)
ShiftUp(n, d) == IF n >= Pow2(Prec - 1) * d THEN 0 ELSE 1 + ShiftUp(2 * n, d)

\* the number of factors 2 of n > 0
RECURSIVE Val2(_)
Val2(n) == IF n % 2 = 1 THEN 0 ELSE 1 + Val2(n \div 2)

\* q = (n/d) * 2^(u-t) with n and d odd; n/d is scaled into
\* [2^(Prec-1), 2^Prec), rounded to an integer significand, and scaled back
fl(q) ==
    IF q[1] = 0 THEN q
    ELSE LET \* o * 2^e
             scaled(o, e) == IF e >= 0 THEN <<o * Pow2(e), 1>> ELSE <<o, Pow2(-e)>>
             \* the significand mr without its v trailing zeros
             stripped(mr, v, e) == scaled(QSign(q) * (mr \div Pow2(v)), e + v)
             \* quotient m and remainder r of sn by sd: nearest, ties to even
             rounded(m, r, sd, e) ==
                 IF 2 * r > sd \/ (2 * r = sd /\ m % 2 = 1)
                 THEN stripped(m + 1, Val2(m + 1), e)
                 ELSE stripped(m, Val2(m), e)
             quotient(sn, sd, e) == rounded(sn \div sd, sn % sd, sd, e)
             shifted(n, d, k, j, e) == quotient(n * Pow2(j), d * Pow2(k), e + k - j)
             odd(n, d, e) == shifted(n, d, ShiftDown(n, d), ShiftUp(n, d), e)
             split(u, t) == odd(Abs(q[1]) \div Pow2(u), q[2] \div Pow2(t), u - t)
         IN  split(Val2(Abs(q[1])), Val2(q[2]))

\* Python's float operators
add(x, y) == fl(QAdd(x, y))
sub(x, y) == fl(QSub(x, y))
mul(x, y) == fl(QMul(x, y))
div(x, y) == fl(QDiv(x, y))
pow(x, k) == fl(QPow(x, k))
abs(x) == <<Abs(x[1]), x[2]>>

----------------------------------------------------------------------------
\* Evaluators (parse_function): polynomial expressions

\* the expressions offered to the solver, as coefficients <<c0, c1, ..., cn>>
SqMinus2 == <<Q(-2, 1), Zero, One>>      \* x**2 - 2
SqMinus1 == <<Q(-1, 1), Zero, One>>      \* x**2 - 1
Sq       == <<Zero, Zero, One>>          \* x**2
SqPlus1  == <<One, Zero, One>>           \* x**2 + 1
Twice    == <<Zero, Two>>                \* 2*x
HalfPlus1 == <<One, Q(1, 2)>>            \* x/2 + 1
Funcs == {SqMinus2, SqMinus1, Sq, SqPlus1, Twice, HalfPlus1}
\* the expressions offered as g(x) to fixed-point iteration
GFuncs == {SqMinus2, SqMinus1, Twice, HalfPlus1}

\* the callable lambdify builds: the terms of the expression, highest power
\* first, each computed and added in floating point
RECURSIVE EvalFrom(_, _, _, _)
EvalFrom(p, x, k, acc) ==
    IF k = 0 THEN acc
    ELSE LET term == IF p[k][1] = 0 THEN Zero
                     ELSE IF k = 1 THEN p[1]
                     ELSE mul(p[k], pow(x, k - 1))
         IN  EvalFrom(p, x, k - 1, add(acc, term))

Eval(p, x) == EvalFrom(p, x, Len(p), Zero)

\* sp.diff of a polynomial expression
Diff(p) == [k \in 1..(Len(p) - 1) |-> QMul(Q(k, 1), p[k + 1])]

\* the floats the callers pass in
Seeds  == {Q(-5, 2), Q(-1, 2), Zero, Q(1, 8), One, Two}
Deltas == {Zero, Q(1, 8), One}
Tols   == {Q(-1, 1), Zero, Q(1, 8), One}
MaxIters == (-1)..MaxIter

----------------------------------------------------------------------------
\* Call frames.  A frame holds the arguments and locals of one call of a
\* method, where the call stands (pc), the exception it raised (exc) and the
\* tuple it returned (ret).  i counts the passes of the for loop begun.

Unbound == <<>>
NoExc == <<>>
NoRet == <<>>

Idle == [method |-> "none", pc |-> "idle", max_iter |-> 0, tol |-> Zero,
         i |-> 0, rows |-> <<>>, exc |-> NoExc, ret |-> NoRet]

Raise(s, type, msg) == [s EXCEPT !.pc = "raised", !.exc = <<type, msg>>]
Return(s, root, final, iters, rows) ==
    [s EXCEPT !.pc = "returned", !.ret = <<root, final, iters, rows>>]
\* reading a local that no pass has bound
UnboundLocal(s, name) == Raise(s, "UnboundLocalError", name)

----------------------------------------------------------------------------
\* ZOF_CLI.py

\* variant: for i in range(1, max_iter), one pass short
MorePasses_short(s) == s.i + 1 < s.max_iter

\* for i in range(1, max_iter+1), lines 50, 71, 88, 106, 122, 134:
\* another pass follows pass s.i
MorePasses(s) == s.i < s.max_iter

\* variant: a + b/2.0, the division binding to b alone
bisection_midpoint_unparenthesized(a, b) == add(a, div(b, Two))

\* line 51
bisection_midpoint(a, b) == div(add(a, b), Two)

\* variant: the branches of the replacement exchanged
replace_endpoint_swapped(t, c, fc) ==
    IF QLt(mul(t.fa, fc), Zero)
    THEN [t EXCEPT !.a = c, !.fa = fc]
    ELSE [t EXCEPT !.b = c, !.fb = fc]

\* lines 57-62 and 78-83: c replaces b or a
replace_endpoint(t, c, fc) ==
    IF QLt(mul(t.fa, fc), Zero)
    THEN [t EXCEPT !.b = c, !.fb = fc]
    ELSE [t EXCEPT !.a = c, !.fa = fc]

\* variant: a zero denominator ends the loop with the records so far
secant_zero_denominator_returns(r) ==
    Return(r, r.x1, abs(r.f1), r.i - 1, r.rows)

\* lines 91-92
secant_zero_denominator(r) ==
    Raise(r, "ZeroDivisionError", "Zero denominator in Secant method.")

\* variant: the half-width returned in place of |f(c)|
bisection_exit_error(s) ==
    IF s.c = Unbound THEN UnboundLocal(s, "c")
    ELSE Return(s, s.c, s.error, s.max_iter, s.rows)

\* line 63, reached when the for loop is exhausted
bisection_exit(s) ==
    IF s.c = Unbound THEN UnboundLocal(s, "c")
    ELSE Return(s, s.c, abs(s.fc), s.max_iter, s.rows)

\* lines 51-62, one pass of the loop line by line, and line 63 after
\* the last one
bisection_pass(s) ==
    LET next(u) == IF MorePasses(u) THEN u ELSE bisection_exit(u)
        line55(t) ==
            IF QLt(abs(t.fc), t.tol) \/ QLt(t.error, t.tol)
            THEN Return(t, t.c, abs(t.fc), t.i, t.rows)
            ELSE next(replace_endpoint(t, t.c, t.fc))
        line54(t) ==
            line55([t EXCEPT !.rows = Append(@, <<t.i, t.a, t.b, t.c, t.fc, t.error>>)])
        line53(t) == line54([t EXCEPT !.error = div(abs(sub(t.b, t.a)), Two)])
        line52(t) == line53([t EXCEPT !.fc = Eval(t.f, t.c)])
        line51(t) == line52([t EXCEPT !.c = bisection_midpoint(t.a, t.b)])
    IN  line51([s EXCEPT !.i = @ + 1])

\* lines 46-50: the call up to the first pass
bisection_method(f, a, b, max_iter, tol) ==
    LET line50(s) == IF MorePasses(s) THEN s ELSE bisection_exit(s)
        line48(s) ==
            IF QLt(Zero, mul(s.fa, s.fb))
            THEN Raise(s, "ValueError", "f(a) and f(b) must have opposite signs for Bisection.")
            ELSE line50(s)
    IN  line48([method |-> "bisection", pc |-> "loop", f |-> f, a |-> a, b |-> b,
                 max_iter |-> max_iter, tol |-> tol, rows |-> <<>>,
                 fa |-> Eval(f, a), fb |-> Eval(f, b), i |-> 0, c |-> Unbound,
                 fc |-> Unbound, error |-> Unbound, exc |-> NoExc, ret |-> NoRet])

\* line 84
regula_falsi_exit(s) ==
    IF s.fc = Unbound THEN UnboundLocal(s, "fc")
    ELSE Return(s, s.c, abs(s.fc), s.max_iter, s.rows)

\* lines 72-83, and line 84 after the last pass
regula_falsi_pass(s) ==
    LET next(u) == IF MorePasses(u) THEN u ELSE regula_falsi_exit(u)
        line76(t) ==
            IF QLt(abs(t.fc), t.tol)
            THEN Return(t, t.c, abs(t.fc), t.i, t.rows)
            ELSE next(replace_endpoint(t, t.c, t.fc))
        line75(t) ==
            line76([t EXCEPT !.rows = Append(@, <<t.i, t.a, t.b, t.c, t.fc, t.error>>)])
        line74(t) == line75([t EXCEPT !.error = abs(t.fc)])
        line73(t) == line74([t EXCEPT !.fc = Eval(t.f, t.c)])
        line72(t) ==
            IF sub(t.fb, t.fa) = Zero
            THEN Raise(t, "ZeroDivisionError", "float division by zero")
            ELSE line73([t EXCEPT !.c = div(sub(mul(t.a, t.fb), mul(t.b, t.fa)),
                                            sub(t.fb, t.fa))])
    IN  line72([s EXCEPT !.i = @ + 1])

\* lines 66-71
regula_falsi(f, a, b, max_iter, tol) ==
    LET line71(s) == IF MorePasses(s) THEN s ELSE regula_falsi_exit(s)
        line68(s) ==
            IF QLt(Zero, mul(s.fa, s.fb))
            THEN Raise(s, "ValueError", "f(a) and f(b) must have opposite signs for Regula Falsi.")
            ELSE line71(s)
    IN  line68([method |-> "regula_falsi", pc |-> "loop", f |-> f, a |-> a, b |-> b,
                 max_iter |-> max_iter, tol |-> tol, rows |-> <<>>,
                 fa |-> Eval(f, a), fb |-> Eval(f, b), i |-> 0, c |-> a,
                 fc |-> Unbound, error |-> Unbound, exc |-> NoExc, ret |-> NoRet])

\* line 99
secant_method_exit(s) ==
    IF s.x2 = Unbound THEN UnboundLocal(s, "x2")
    ELSE Return(s, s.x2, abs(Eval(s.f, s.x2)), s.max_iter, s.rows)

\* lines 89-98, and line 99 after the last pass
secant_method_pass(s) ==
    LET next(u) == IF MorePasses(u) THEN u ELSE secant_method_exit(u)
        line96(t) ==
            IF QLt(abs(Eval(t.f, t.x2)), t.tol) \/ QLt(t.err, t.tol)
            THEN Return(t, t.x2, abs(Eval(t.f, t.x2)), t.i, t.rows)
            ELSE next([t EXCEPT !.x0 = t.x1, !.x1 = t.x2])
        line95(t) ==
            line96([t EXCEPT !.rows = Append(@, <<t.i, t.x0, t.x1, t.x2,
                                                   Eval(t.f, t.x2), t.err>>)])
        line94(t) == line95([t EXCEPT !.err = abs(sub(t.x2, t.x1))])
        line93(t) ==
            line94([t EXCEPT !.x2 = sub(t.x1, div(mul(t.f1, sub(t.x1, t.x0)),
                                                sub(t.f1, t.f0)))])
        line91(t) ==
            IF sub(t.f1, t.f0) = Zero THEN secant_zero_denominator(t) ELSE line93(t)
        line89(t) == line91([t EXCEPT !.f0 = Eval(t.f, t.x0), !.f1 = Eval(t.f, t.x1)])
    IN  line89([s EXCEPT !.i = @ + 1])

\* lines 87-88
secant_method(f, x0, x1, max_iter, tol) ==
    LET line88(s) == IF MorePasses(s) THEN s ELSE secant_method_exit(s)
    IN  line88([method |-> "secant", pc |-> "loop", f |-> f, x0 |-> x0, x1 |-> x1,
                 max_iter |-> max_iter, tol |-> tol, rows |-> <<>>, i |-> 0,
                 f0 |-> Unbound, f1 |-> Unbound, x2 |-> Unbound, err |-> Unbound,
                 exc |-> NoExc, ret |-> NoRet])

\* line 117
newton_raphson_exit(s) ==
    IF s.fx = Unbound THEN UnboundLocal(s, "fx")
    ELSE Return(s, s.x, abs(s.fx), s.max_iter, s.rows)

\* variant: |f(x)| < tol looked at before the derivative
newton_raphson_pass_converged_first(s) ==
    LET next(u) == IF MorePasses(u) THEN u ELSE newton_raphson_exit(u)
        line114(t) ==
            IF QLt(t.err, t.tol)
            THEN Return(t, t.x_new, abs(t.fx), t.i, t.rows)
            ELSE next([t EXCEPT !.x = t.x_new])
        line113(t) ==
            line114([t EXCEPT !.rows = Append(@, <<t.i, t.x, t.fx, t.dfx, t.x_new, t.err>>)])
        line112(t) == line113([t EXCEPT !.err = abs(sub(t.x_new, t.x))])
        line111(t) == line112([t EXCEPT !.x_new = sub(t.x, div(t.fx, t.dfx))])
        line109(t) ==
            IF t.dfx = Zero
            THEN Raise(t, "ZeroDivisionError", "Zero derivative at x = {:.6g}")
            ELSE line111(t)
        converged(t) == Return(t, t.x, abs(t.fx), t.i, t.rows)
        early(t) ==
            IF QLt(abs(t.fx), t.tol)
            THEN converged([t EXCEPT !.rows = Append(@, <<t.i, t.x, t.fx, t.dfx, t.x, Zero>>)])
            ELSE line109(t)
        line107(t) == early([t EXCEPT !.fx = Eval(t.f, t.x), !.dfx = Eval(t.df, t.x)])
    IN  line107([s EXCEPT !.i = @ + 1])

\* lines 107-116, and line 117 after the last pass
newton_raphson_pass(s) ==
    LET next(u) == IF MorePasses(u) THEN u ELSE newton_raphson_exit(u)
        line114(t) ==
            IF QLt(abs(t.fx), t.tol) \/ QLt(t.err, t.tol)
            THEN Return(t, t.x_new, abs(t.fx), t.i, t.rows)
            ELSE next([t EXCEPT !.x = t.x_new])
        line113(t) ==
            line114([t EXCEPT !.rows = Append(@, <<t.i, t.x, t.fx, t.dfx, t.x_new, t.err>>)])
        line112(t) == line113([t EXCEPT !.err = abs(sub(t.x_new, t.x))])
        line111(t) == line112([t EXCEPT !.x_new = sub(t.x, div(t.fx, t.dfx))])
        line109(t) ==
            IF t.dfx = Zero
            THEN Raise(t, "ZeroDivisionError", "Zero derivative at x = {:.6g}")
            ELSE line111(t)
        line107(t) == line109([t EXCEPT !.fx = Eval(t.f, t.x), !.dfx = Eval(t.df, t.x)])
    IN  line107([s EXCEPT !.i = @ + 1])

\* lines 102-106
newton_raphson(f_expr, x0, max_iter, tol) ==
    LET line106(s) == IF MorePasses(s) THEN s ELSE newton_raphson_exit(s)
    IN  line106([method |-> "newton", pc |-> "loop", f |-> f_expr, df |-> Diff(f_expr),
                  x |-> x0, max_iter |-> max_iter, tol |-> tol, rows |-> <<>>, i |-> 0,
                  fx |-> Unbound, dfx |-> Unbound, x_new |-> Unbound, err |-> Unbound,
                  exc |-> NoExc, ret |-> NoRet])

\* variant: running out of passes treated as a failure
fixed_point_iteration_exit_raises(s) ==
    IF s.x_new = Unbound THEN UnboundLocal(s, "x_new")
    ELSE Raise(s, "RuntimeError", "no convergence")

\* line 129
fixed_point_iteration_exit(s) ==
    IF s.x_new = Unbound THEN UnboundLocal(s, "x_new")
    ELSE Return(s, s.x_new, s.err, s.max_iter, s.rows)

\* lines 123-128, and line 129 after the last pass
fixed_point_iteration_pass(s) ==
    LET next(u) == IF MorePasses(u) THEN u ELSE fixed_point_iteration_exit(u)
        line126(t) ==
            IF QLt(t.err, t.tol)
            THEN Return(t, t.x_new, t.err, t.i, t.rows)
            ELSE next([t EXCEPT !.x = t.x_new])
        line125(t) ==
            line126([t EXCEPT !.rows = Append(@, <<t.i, t.x, t.x_new, t.err>>)])
        line124(t) == line125([t EXCEPT !.err = abs(sub(t.x_new, t.x))])
        line123(t) == line124([t EXCEPT !.x_new = Eval(t.g, t.x)])
    IN  line123([s EXCEPT !.i = @ + 1])

\* lines 120-122
fixed_point_iteration(g, x0, max_iter, tol) ==
    LET line122(s) == IF MorePasses(s) THEN s ELSE fixed_point_iteration_exit(s)
    IN  line122([method |-> "fixed_point", pc |-> "loop", g |-> g, x |-> x0,
                  max_iter |-> max_iter, tol |-> tol, rows |-> <<>>, i |-> 0,
                  x_new |-> Unbound, err |-> Unbound, exc |-> NoExc, ret |-> NoRet])

\* line 145
modified_secant_exit(s) ==
    IF s.x_new = Unbound THEN UnboundLocal(s, "x_new")
    ELSE Return(s, s.x_new, abs(s.f_x), s.max_iter, s.rows)

\* lines 135-144, and line 145 after the last pass
modified_secant_pass(s) ==
    LET next(u) == IF MorePasses(u) THEN u ELSE modified_secant_exit(u)
        line142(t) ==
            IF QLt(abs(t.f_x), t.tol) \/ QLt(t.err, t.tol)
            THEN Return(t, t.x_new, abs(t.f_x), t.i, t.rows)
            ELSE next([t EXCEPT !.x = t.x_new])
        line141(t) ==
            line142([t EXCEPT !.rows = Append(@, <<t.i, t.x, t.f_x, t.x_new, t.err>>)])
        line140(t) == line141([t EXCEPT !.err = abs(sub(t.x_new, t.x))])
        line139(t) ==
            line140([t EXCEPT !.x_new = sub(t.x, div(mul(t.delta, t.f_x), t.denom))])
        line137(t) ==
            IF t.denom = Zero
            THEN Raise(t, "ZeroDivisionError", "Zero denominator in Modified Secant.")
            ELSE line139(t)
        line136(t) ==
            line137([t EXCEPT !.denom = sub(Eval(t.f, add(t.x, t.delta)), t.f_x)])
        line135(t) == line136([t EXCEPT !.f_x = Eval(t.f, t.x)])
    IN  line135([s EXCEPT !.i = @ + 1])

\* lines 132-134
modified_secant(f, x0, delta, max_iter, tol) ==
    LET line134(s) == IF MorePasses(s) THEN s ELSE modified_secant_exit(s)
    IN  line134([method |-> "modified_secant", pc |-> "loop", f |-> f, x |-> x0,
                  delta |-> delta, max_iter |-> max_iter, tol |-> tol, rows |-> <<>>,
                  i |-> 0, f_x |-> Unbound, denom |-> Unbound, x_new |-> Unbound,
                  err |-> Unbound, exc |-> NoExc, ret |-> NoRet])

----------------------------------------------------------------------------
\* app.py   (rows are tuples here, lists in ZOF_CLI.py)

\* variant: for i in range(1, max_iter), one pass short
app_MorePasses_short(s) == s.i + 1 < s.max_iter

\* for i in range(1, max_iter+1), lines 21, 40, 55, 72, 88, 100:
\* another pass follows pass s.i
app_MorePasses(s) == s.i < s.max_iter

\* line 22
app_bisection_midpoint(a, b) == div(add(a, b), Two)

\* lines 28-31 and 47-50: c replaces b or a
app_replace_endpoint(t, c, fc) ==
    IF QLt(mul(t.fa, fc), Zero)
    THEN [t EXCEPT !.b = c, !.fb = fc]
    ELSE [t EXCEPT !.a = c, !.fa = fc]

\* lines 57-58
app_secant_zero_denominator(r) ==
    Raise(r, "ZeroDivisionError", "Zero denominator in Secant method.")

\* line 32, reached when the for loop is exhausted
app_bisection_exit(s) ==
    IF s.c = Unbound THEN UnboundLocal(s, "c")
    ELSE Return(s, s.c, abs(s.fc), s.max_iter, s.rows)

\* lines 22-31, one pass of the loop line by line, and line 32 after
\* the last one
app_bisection_pass(s) ==
    LET next(u) == IF app_MorePasses(u) THEN u ELSE app_bisection_exit(u)
        line26(t) ==
            IF QLt(abs(t.fc), t.tol) \/ QLt(t.error, t.tol)
            THEN Return(t, t.c, abs(t.fc), t.i, t.rows)
            ELSE next(app_replace_endpoint(t, t.c, t.fc))
        line25(t) ==
            line26([t EXCEPT !.rows = Append(@, <<t.i, t.a, t.b, t.c, t.fc, t.error>>)])
        line24(t) == line25([t EXCEPT !.error = div(abs(sub(t.b, t.a)), Two)])
        line23(t) == line24([t EXCEPT !.fc = Eval(t.f, t.c)])
        line22(t) == line23([t EXCEPT !.c = app_bisection_midpoint(t.a, t.b)])
    IN  line22([s EXCEPT !.i = @ + 1])

\* lines 17-21: the call up to the first pass
app_bisection_method(f, a, b, max_iter, tol) ==
    LET line21(s) == IF app_MorePasses(s) THEN s ELSE app_bisection_exit(s)
        line19(s) ==
            IF QLt(Zero, mul(s.fa, s.fb))
            THEN Raise(s, "ValueError", "f(a) and f(b) must have opposite signs for Bisection.")
            ELSE line21(s)
    IN  line19([method |-> "bisection", pc |-> "loop", f |-> f, a |-> a, b |-> b,
                 max_iter |-> max_iter, tol |-> tol, rows |-> <<>>,
                 fa |-> Eval(f, a), fb |-> Eval(f, b), i |-> 0, c |-> Unbound,
                 fc |-> Unbound, error |-> Unbound, exc |-> NoExc, ret |-> NoRet])

\* line 51
app_regula_falsi_exit(s) ==
    IF s.fc = Unbound THEN UnboundLocal(s, "fc")
    ELSE Return(s, s.c, abs(s.fc), s.max_iter, s.rows)

\* lines 41-50, and line 51 after the last pass
app_regula_falsi_pass(s) ==
    LET next(u) == IF app_MorePasses(u) THEN u ELSE app_regula_falsi_exit(u)
        line45(t) ==
            IF QLt(abs(t.fc), t.tol)
            THEN Return(t, t.c, abs(t.fc), t.i, t.rows)
            ELSE next(app_replace_endpoint(t, t.c, t.fc))
        line44(t) ==
            line45([t EXCEPT !.rows = Append(@, <<t.i, t.a, t.b, t.c, t.fc, t.error>>)])
        line43(t) == line44([t EXCEPT !.error = abs(t.fc)])
        line42(t) == line43([t EXCEPT !.fc = Eval(t.f, t.c)])
        line41(t) ==
            IF sub(t.fb, t.fa) = Zero
            THEN Raise(t, "ZeroDivisionError", "float division by zero")
            ELSE line42([t EXCEPT !.c = div(sub(mul(t.a, t.fb), mul(t.b, t.fa)),
                                            sub(t.fb, t.fa))])
    IN  line41([s EXCEPT !.i = @ + 1])

\* lines 35-40
app_regula_falsi(f, a, b, max_iter, tol) ==
    LET line40(s) == IF app_MorePasses(s) THEN s ELSE app_regula_falsi_exit(s)
        line37(s) ==
            IF QLt(Zero, mul(s.fa, s.fb))
            THEN Raise(s, "ValueError", "f(a) and f(b) must have opposite signs for Regula Falsi.")
            ELSE line40(s)
    IN  line37([method |-> "regula_falsi", pc |-> "loop", f |-> f, a |-> a, b |-> b,
                 max_iter |-> max_iter, tol |-> tol, rows |-> <<>>,
                 fa |-> Eval(f, a), fb |-> Eval(f, b), i |-> 0, c |-> a,
                 fc |-> Unbound, error |-> Unbound, exc |-> NoExc, ret |-> NoRet])

\* line 65
app_secant_method_exit(s) ==
    IF s.x2 = Unbound THEN UnboundLocal(s, "x2")
    ELSE Return(s, s.x2, abs(Eval(s.f, s.x2)), s.max_iter, s.rows)

\* lines 56-64, and line 65 after the last pass
app_secant_method_pass(s) ==
    LET next(u) == IF app_MorePasses(u) THEN u ELSE app_secant_method_exit(u)
        line62(t) ==
            IF QLt(abs(Eval(t.f, t.x2)), t.tol) \/ QLt(t.err, t.tol)
            THEN Return(t, t.x2, abs(Eval(t.f, t.x2)), t.i, t.rows)
            ELSE next([t EXCEPT !.x0 = t.x1, !.x1 = t.x2])
        line61(t) ==
            line62([t EXCEPT !.rows = Append(@, <<t.i, t.x0, t.x1, t.x2,
                                                   Eval(t.f, t.x2), t.err>>)])
        line60(t) == line61([t EXCEPT !.err = abs(sub(t.x2, t.x1))])
        line59(t) ==
            line60([t EXCEPT !.x2 = sub(t.x1, div(mul(t.f1, sub(t.x1, t.x0)),
                                                sub(t.f1, t.f0)))])
        line57(t) ==
            IF sub(t.f1, t.f0) = Zero THEN app_secant_zero_denominator(t) ELSE line59(t)
        line56(t) == line57([t EXCEPT !.f0 = Eval(t.f, t.x0), !.f1 = Eval(t.f, t.x1)])
    IN  line56([s EXCEPT !.i = @ + 1])

\* lines 54-55
app_secant_method(f, x0, x1, max_iter, tol) ==
    LET line55(s) == IF app_MorePasses(s) THEN s ELSE app_secant_method_exit(s)
    IN  line55([method |-> "secant", pc |-> "loop", f |-> f, x0 |-> x0, x1 |-> x1,
                 max_iter |-> max_iter, tol |-> tol, rows |-> <<>>, i |-> 0,
                 f0 |-> Unbound, f1 |-> Unbound, x2 |-> Unbound, err |-> Unbound,
                 exc |-> NoExc, ret |-> NoRet])

\* line 83
app_newton_raphson_exit(s) ==
    IF s.fx = Unbound THEN UnboundLocal(s, "fx")
    ELSE Return(s, s.x, abs(s.fx), s.max_iter, s.rows)

\* lines 73-82, and line 83 after the last pass
app_newton_raphson_pass(s) ==
    LET next(u) == IF app_MorePasses(u) THEN u ELSE app_newton_raphson_exit(u)
        line80(t) ==
            IF QLt(abs(t.fx), t.tol) \/ QLt(t.err, t.tol)
            THEN Return(t, t.x_new, abs(t.fx), t.i, t.rows)
            ELSE next([t EXCEPT !.x = t.x_new])
        line79(t) ==
            line80([t EXCEPT !.rows = Append(@, <<t.i, t.x, t.fx, t.dfx, t.x_new, t.err>>)])
        line78(t) == line79([t EXCEPT !.err = abs(sub(t.x_new, t.x))])
        line77(t) == line78([t EXCEPT !.x_new = sub(t.x, div(t.fx, t.dfx))])
        line75(t) ==
            IF t.dfx = Zero
            THEN Raise(t, "ZeroDivisionError", "Zero derivative.")
            ELSE line77(t)
        line73(t) == line75([t EXCEPT !.fx = Eval(t.f, t.x), !.dfx = Eval(t.df, t.x)])
    IN  line73([s EXCEPT !.i = @ + 1])

\* lines 68-72
app_newton_raphson(f_expr, x0, max_iter, tol) ==
    LET line72(s) == IF app_MorePasses(s) THEN s ELSE app_newton_raphson_exit(s)
    IN  line72([method |-> "newton", pc |-> "loop", f |-> f_expr, df |-> Diff(f_expr),
                  x |-> x0, max_iter |-> max_iter, tol |-> tol, rows |-> <<>>, i |-> 0,
                  fx |-> Unbound, dfx |-> Unbound, x_new |-> Unbound, err |-> Unbound,
                  exc |-> NoExc, ret |-> NoRet])

\* line 95
app_fixed_point_iteration_exit(s) ==
    IF s.x_new = Unbound THEN UnboundLocal(s, "x_new")
    ELSE Return(s, s.x_new, s.err, s.max_iter, s.rows)

\* lines 89-94, and line 95 after the last pass
app_fixed_point_iteration_pass(s) ==
    LET next(u) == IF app_MorePasses(u) THEN u ELSE app_fixed_point_iteration_exit(u)
        line92(t) ==
            IF QLt(t.err, t.tol)
            THEN Return(t, t.x_new, t.err, t.i, t.rows)
            ELSE next([t EXCEPT !.x = t.x_new])
        line91(t) ==
            line92([t EXCEPT !.rows = Append(@, <<t.i, t.x, t.x_new, t.err>>)])
        line90(t) == line91([t EXCEPT !.err = abs(sub(t.x_new, t.x))])
        line89(t) == line90([t EXCEPT !.x_new = Eval(t.g, t.x)])
    IN  line89([s EXCEPT !.i = @ + 1])

\* lines 86-88
app_fixed_point_iteration(g, x0, max_iter, tol) ==
    LET line88(s) == IF app_MorePasses(s) THEN s ELSE app_fixed_point_iteration_exit(s)
    IN  line88([method |-> "fixed_point", pc |-> "loop", g |-> g, x |-> x0,
                  max_iter |-> max_iter, tol |-> tol, rows |-> <<>>, i |-> 0,
                  x_new |-> Unbound, err |-> Unbound, exc |-> NoExc, ret |-> NoRet])

\* line 111
app_modified_secant_exit(s) ==
    IF s.x_new = Unbound THEN UnboundLocal(s, "x_new")
    ELSE Return(s, s.x_new, abs(s.f_x), s.max_iter, s.rows)

\* lines 101-110, and line 111 after the last pass
app_modified_secant_pass(s) ==
    LET next(u) == IF app_MorePasses(u) THEN u ELSE app_modified_secant_exit(u)
        line108(t) ==
            IF QLt(abs(t.f_x), t.tol) \/ QLt(t.err, t.tol)
            THEN Return(t, t.x_new, abs(t.f_x), t.i, t.rows)
            ELSE next([t EXCEPT !.x = t.x_new])
        line107(t) ==
            line108([t EXCEPT !.rows = Append(@, <<t.i, t.x, t.f_x, t.x_new, t.err>>)])
        line106(t) == line107([t EXCEPT !.err = abs(sub(t.x_new, t.x))])
        line105(t) ==
            line106([t EXCEPT !.x_new = sub(t.x, div(mul(t.delta, t.f_x), t.denom))])
        line103(t) ==
            IF t.denom = Zero
            THEN Raise(t, "ZeroDivisionError", "Zero denominator in Modified Secant.")
            ELSE line105(t)
        line102(t) ==
            line103([t EXCEPT !.denom = sub(Eval(t.f, add(t.x, t.delta)), t.f_x)])
        line101(t) == line102([t EXCEPT !.f_x = Eval(t.f, t.x)])
    IN  line101([s EXCEPT !.i = @ + 1])

\* lines 98-100
app_modified_secant(f, x0, delta, max_iter, tol) ==
    LET line100(s) == IF app_MorePasses(s) THEN s ELSE app_modified_secant_exit(s)
    IN  line100([method |-> "modified_secant", pc |-> "loop", f |-> f, x |-> x0,
                  delta |-> delta, max_iter |-> max_iter, tol |-> tol, rows |-> <<>>,
                  i |-> 0, f_x |-> Unbound, denom |-> Unbound, x_new |-> Unbound,
                  err |-> Unbound, exc |-> NoExc, ret |-> NoRet])

VARIABLES cli, web
vars == <<cli, web>>

\* cli is the frame of the call in ZOF_CLI.py, web the frame of the call in
\* app.py; both are given the same arguments and advance pass by pass.

Init == cli = Idle /\ web = Idle

InLoop(s) == s.pc = "loop"
Running(m) == cli.method = m /\ (InLoop(cli) \/ InLoop(web))

CallBisection ==
    /\ cli.pc = "idle" /\ web.pc = "idle"
    /\ \E f \in Funcs, a \in Seeds, b \in Seeds, max_iter \in MaxIters, tol \in Tols :
          /\ cli' = bisection_method(f, a, b, max_iter, tol)
          /\ web' = app_bisection_method(f, a, b, max_iter, tol)

CallRegulaFalsi ==
    /\ cli.pc = "idle" /\ web.pc = "idle"
    /\ \E f \in Funcs, a \in Seeds, b \in Seeds, max_iter \in MaxIters, tol \in Tols :
          /\ cli' = regula_falsi(f, a, b, max_iter, tol)
          /\ web' = app_regula_falsi(f, a, b, max_iter, tol)

CallSecant ==
    /\ cli.pc = "idle" /\ web.pc = "idle"
    /\ \E f \in Funcs, x0 \in Seeds, x1 \in Seeds, max_iter \in MaxIters, tol \in Tols :
          /\ cli' = secant_method(f, x0, x1, max_iter, tol)
          /\ web' = app_secant_method(f, x0, x1, max_iter, tol)

CallNewton ==
    /\ cli.pc = "idle" /\ web.pc = "idle"
    /\ \E f \in Funcs, x0 \in Seeds, max_iter \in MaxIters, tol \in Tols :
          /\ cli' = newton_raphson(f, x0, max_iter, tol)
          /\ web' = app_newton_raphson(f, x0, max_iter, tol)

CallFixedPoint ==
    /\ cli.pc = "idle" /\ web.pc = "idle"
    /\ \E g \in GFuncs, x0 \in Seeds, max_iter \in MaxIters, tol \in Tols :
          /\ cli' = fixed_point_iteration(g, x0, max_iter, tol)
          /\ web' = app_fixed_point_iteration(g, x0, max_iter, tol)

CallModifiedSecant ==
    /\ cli.pc = "idle" /\ web.pc = "idle"
    /\ \E f \in Funcs, x0 \in Seeds, delta \in Deltas, max_iter \in MaxIters, tol \in Tols :
          /\ cli' = modified_secant(f, x0, delta, max_iter, tol)
          /\ web' = app_modified_secant(f, x0, delta, max_iter, tol)

PassBisection ==
    /\ Running("bisection")
    /\ cli' = IF InLoop(cli) THEN bisection_pass(cli) ELSE cli
    /\ web' = IF InLoop(web) THEN app_bisection_pass(web) ELSE web

PassRegulaFalsi ==
    /\ Running("regula_falsi")
    /\ cli' = IF InLoop(cli) THEN regula_falsi_pass(cli) ELSE cli
    /\ web' = IF InLoop(web) THEN app_regula_falsi_pass(web) ELSE web

PassSecant ==
    /\ Running("secant")
    /\ cli' = IF InLoop(cli) THEN secant_method_pass(cli) ELSE cli
    /\ web' = IF InLoop(web) THEN app_secant_method_pass(web) ELSE web

PassNewton ==
    /\ Running("newton")
    /\ cli' = IF InLoop(cli) THEN newton_raphson_pass(cli) ELSE cli
    /\ web' = IF InLoop(web) THEN app_newton_raphson_pass(web) ELSE web

PassFixedPoint ==
    /\ Running("fixed_point")
    /\ cli' = IF InLoop(cli) THEN fixed_point_iteration_pass(cli) ELSE cli
    /\ web' = IF InLoop(web) THEN app_fixed_point_iteration_pass(web) ELSE web

PassModifiedSecant ==
    /\ Running("modified_secant")
    /\ cli' = IF InLoop(cli) THEN modified_secant_pass(cli) ELSE cli
    /\ web' = IF InLoop(web) THEN app_modified_secant_pass(web) ELSE web

Next ==
    \/ CallBisection \/ CallRegulaFalsi \/ CallSecant
    \/ CallNewton \/ CallFixedPoint \/ CallModifiedSecant
    \/ PassBisection \/ PassRegulaFalsi \/ PassSecant
    \/ PassNewton \/ PassFixedPoint \/ PassModifiedSecant

Spec == Init /\ [][Next]_vars

----------------------------------------------------------------------------
\* Properties

Frames == {cli, web}
Called(s) == s.method # "none"
Returned(s) == s.pc = "returned"
Raised(s) == s.pc = "raised"
Last(rows) == rows[Len(rows)]
\* the error metric is the last field of a record
RowError(row) == row[Len(row)]

\* the estimate a record's pass computed: c, x2 or x_new
RowEstimate(s, row) ==
    CASE s.method \in {"bisection", "regula_falsi", "secant", "modified_secant"} -> row[4]
      [] s.method = "newton" -> row[5]
      [] s.method = "fixed_point" -> row[3]

\* the function value a record holds: f(c), f(x2) or f(x)
RowValue(s, row) ==
    CASE s.method \in {"bisection", "regula_falsi", "secant"} -> row[5]
      [] s.method \in {"newton", "modified_secant"} -> row[3]

\* the method's convergence predicate, on the values of a record
RowConverged(s, row) ==
    CASE s.method = "regula_falsi" -> QLt(abs(RowValue(s, row)), s.tol)
      [] s.method = "fixed_point" -> QLt(RowError(row), s.tol)
      [] OTHER -> QLt(abs(RowValue(s, row)), s.tol) \/ QLt(RowError(row), s.tol)

NeverConverged(s) == \A k \in 1..Len(s.rows) : ~RowConverged(s, s.rows[k])

\* C1: with max_iterations >= 1, a call whose convergence predicate was false
\* in every one of its max_iterations passes raises nothing and returns
\* iterations_used = max_iterations, max_iterations records and the estimate
\* of the last pass; and no call returns unconverged before that.
C1_ExhaustionReturns ==
    \A s \in Frames :
        /\ (Called(s) /\ s.max_iter >= 1 /\ Len(s.rows) = s.max_iter /\ NeverConverged(s))
              => /\ Returned(s)
                 /\ s.ret[3] = s.max_iter
                 /\ Len(s.ret[4]) = s.max_iter
                 /\ s.ret[1] = RowEstimate(s, Last(s.rows))
        /\ (Called(s) /\ Returned(s) /\ NeverConverged(s))
              => Len(s.rows) = s.max_iter

\* fixed point with g(x) = 2x and x0 # 0 has run out of passes
C1_Witness ==
    /\ cli.method = "fixed_point" /\ cli.g = Twice
    /\ Returned(cli) /\ NeverConverged(cli)
    /\ cli.max_iter = MaxIter /\ Len(cli.rows) = MaxIter
    /\ cli.rows[1][2] # Zero /\ QLt(Zero, cli.tol)

\* the product f(a)*f(b) of the endpoints the call was given
EntryProduct(s) == QMul(Eval(s.f, s.a), Eval(s.f, s.b))

\* C2 (as claimed): bisection and regula falsi given endpoints with
\* f(a)*f(b) >= 0 raise the bracket error before any pass, with no record.
C2_NonNegativeProductRejected ==
    \A s \in Frames :
        (/\ s.method \in {"bisection", "regula_falsi"}
         /\ s.i = 0 /\ s.max_iter >= 1 /\ QLt(Zero, s.tol)
         /\ QLe(Zero, EntryProduct(s)))
            => (Raised(s) /\ s.exc[1] = "ValueError" /\ s.rows = <<>>)

\* C3 (as claimed): a call with tolerance <= 0 or max_iterations <= 0 is
\* rejected with the error for invalid parameters: it runs no pass, produces
\* no record and returns nothing.
C3_InvalidParametersRejected ==
    \A s \in Frames :
        (Called(s) /\ (QLe(s.tol, Zero) \/ s.max_iter <= 0))
            => (Raised(s) /\ s.exc[1] = "ValueError" /\ s.rows = <<>> /\ s.ret = NoRet)

\* a pass of secant that starts with f(x1) = f(x0)
SecantFlat(s) ==
    s.method = "secant" /\ InLoop(s) /\ Eval(s.f, s.x1) = Eval(s.f, s.x0)
\* a pass of modified secant that starts with f(x + delta) - f(x) = 0
ModifiedSecantFlat(s) ==
    /\ s.method = "modified_secant" /\ InLoop(s)
    /\ QSub(Eval(s.f, add(s.x, s.delta)), Eval(s.f, s.x)) = Zero

ZeroDenominatorStep(s, t) ==
    (SecantFlat(s) \/ ModifiedSecantFlat(s))
        => /\ Raised(t) /\ t.exc[1] = "ZeroDivisionError"
           /\ t.exc[2] \in {"Zero denominator in Secant method.",
                            "Zero denominator in Modified Secant."}
           /\ t.rows = s.rows
           /\ t.ret = NoRet

\* C4: a pass of secant starting with f(x1) = f(x0), or of modified secant
\* with f(x+delta) - f(x) = 0, raises the zero-denominator error before it
\* appends a record, and the call returns nothing, the earlier records
\* included.
C4_ZeroDenominatorRaises ==
    [][ZeroDenominatorStep(cli, cli') /\ ZeroDenominatorStep(web, web')]_vars

\* secant has raised in a later pass, after the shift of (x0, x1)
C4_Witness ==
    /\ cli.method = "secant" /\ Raised(cli)
    /\ cli.exc = <<"ZeroDivisionError", "Zero denominator in Secant method.">>
    /\ Len(cli.rows) >= 1 /\ cli.ret = NoRet

\* what a caller sees of a call: how it ended, the type of its exception,
\* the pass it ended in and the tuple it returned
Observed(s) ==
    [pc |-> s.pc,
     type |-> IF Raised(s) THEN s.exc[1] ELSE "",
     pass |-> s.i,
     ret |-> s.ret]

\* C10: the methods of ZOF_CLI.py and of app.py, given the same arguments,
\* raise the same kind of error in the same pass or return the same root,
\* final error, iterations_used and records.
C10_CopiesAgree == Observed(cli) = Observed(web) /\ cli.rows = web.rows

\* both copies of Newton-Raphson have raised, with different messages
C10_Witness ==
    /\ cli.method = "newton" /\ Raised(cli) /\ Raised(web)
    /\ cli.exc # web.exc /\ Len(cli.rows) >= 1

\* the endpoints a bisection or regula falsi call was given
A0(s) == IF s.rows = <<>> THEN s.a ELSE s.rows[1][2]
B0(s) == IF s.rows = <<>> THEN s.b ELSE s.rows[1][3]

Bracketing(s) == s.method \in {"bisection", "regula_falsi"} /\ s.pc # "idle"

\* a valid bracket [a0, b0]: a0 < b0 and f changes sign across it
ValidBracket(s) ==
    /\ QLt(A0(s), B0(s))
    /\ QLt(QMul(Eval(s.f, A0(s)), Eval(s.f, B0(s))), Zero)

\* the passes that replaced an endpoint: all of them, but a last one that
\* returned on convergence
Replacements(s) ==
    IF s.rows # <<>> /\ RowConverged(s, Last(s.rows))
    THEN Len(s.rows) - 1 ELSE Len(s.rows)

Halved(w, k) == QDiv(w, Q(Pow2(k), 1))

\* C5 (as claimed): in bisection from a valid bracket, the width b - a after
\* the i-th pass is (b0 - a0) / 2^i, and the error metric of the i-th record
\* is (b0 - a0) / 2^i.
C5_WidthHalvesExactly ==
    \A s \in Frames :
        (s.method = "bisection" /\ s.pc # "idle" /\ ValidBracket(s))
            => /\ QSub(s.b, s.a) = Halved(QSub(B0(s), A0(s)), Replacements(s))
               /\ \A k \in 1..Len(s.rows) :
                     RowError(s.rows[k]) = Halved(QSub(B0(s), A0(s)), k)

\* q is a floating-point number: rounding leaves it as it is
Representable(q) == fl(q) = q

\* the exact midpoint of the bracket of every pass so far is a float
ExactMidpoints(s) ==
    \A k \in 1..Len(s.rows) :
        Representable(QDiv(QAdd(s.rows[k][2], s.rows[k][3]), Two))

\* C5 (amended): in bisection from a valid bracket, as long as the midpoint
\* (a+b)/2 of every pass so far is representable in floating point, each pass
\* has c = (a+b)/2 exactly and the width b - a after the i-th pass is
\* (b0 - a0) / 2^i; the error metric of the i-th record is then
\* (b0 - a0) / 2^i if b0 - a0 is representable.
C5_WidthHalvesWhileExact ==
    \A s \in Frames :
        (s.method = "bisection" /\ s.pc # "idle" /\ ValidBracket(s) /\ ExactMidpoints(s))
            => /\ QSub(s.b, s.a) = Halved(QSub(B0(s), A0(s)), Replacements(s))
               /\ \A k \in 1..Len(s.rows) :
                     /\ QMul(Two, s.rows[k][4]) = QAdd(s.rows[k][2], s.rows[k][3])
                     /\ Representable(QSub(B0(s), A0(s)))
                           => RowError(s.rows[k]) = Halved(QSub(B0(s), A0(s)), k)

\* bisection has replaced each endpoint at least once, exactly
C5_Witness ==
    /\ cli.method = "bisection" /\ ValidBracket(cli) /\ ExactMidpoints(cli)
    /\ Replacements(cli) >= 3
    /\ cli.a # A0(cli) /\ cli.b # B0(cli)

\* a bisection pass rounded its midpoint
C5_RoundedWitness ==
    /\ cli.method = "bisection" /\ ValidBracket(cli) /\ ~ExactMidpoints(cli)
    /\ Replacements(cli) >= 1

RowsWellFormed(s, rows) ==
    \A k \in 1..Len(rows) : rows[k][1] = k /\ QLe(Zero, RowError(rows[k]))

IsPrefix(r, t) == Len(r) <= Len(t) /\ SubSeq(t, 1, Len(r)) = r

\* records are only appended, one per step at most
AppendOnly(s, t) == IsPrefix(s.rows, t.rows) /\ Len(t.rows) <= Len(s.rows) + 1

ResultWellFormed(s) ==
    /\ RowsWellFormed(s, s.rows)
    /\ Returned(s) =>
          /\ 1 <= s.ret[3] /\ s.ret[3] <= s.max_iter
          /\ Len(s.ret[4]) = s.ret[3]
          /\ s.ret[4] = s.rows

\* C6: a returned result has 1 <= iterations_used <= max_iterations and
\* exactly iterations_used records; the k-th record has index k and an error
\* metric >= 0; records are only ever appended during the loop.
C6_RecordsWellFormed ==
    /\ [](ResultWellFormed(cli) /\ ResultWellFormed(web))
    /\ [][AppendOnly(cli, cli') /\ AppendOnly(web, web')]_vars

\* a call has returned on convergence before the last pass, with two records
C6_Witness ==
    /\ Returned(cli) /\ cli.ret[3] >= 2 /\ cli.ret[3] < cli.max_iter
    /\ QLt(Zero, cli.tol)

\* C7 (as claimed): the final error metric of a result equals the error
\* metric of its last record.
C7_FinalIsLastRecordError ==
    \A s \in Frames : Returned(s) => s.ret[2] = RowError(Last(s.ret[4]))

\* C7 (amended): the second component of a result is the absolute function
\* value of its last record, |f(c)| for bisection and regula falsi, |f(x2)|
\* for secant, |f(x)| for Newton-Raphson and modified secant, and is the
\* error metric |x_new - x| of the last record for fixed point; it equals
\* the last record's error metric for regula falsi and fixed point.
C7_FinalIsLastFunctionValue ==
    \A s \in Frames :
        Returned(s) =>
            /\ s.method = "fixed_point" => s.ret[2] = RowError(Last(s.ret[4]))
            /\ s.method # "fixed_point" => s.ret[2] = abs(RowValue(s, Last(s.ret[4])))
            /\ s.method = "regula_falsi" => s.ret[2] = RowError(Last(s.ret[4]))

\* bisection has run out of passes with |f(c)| different from the half-width
C7_Witness ==
    /\ cli.method = "bisection" /\ Returned(cli) /\ NeverConverged(cli)
    /\ cli.ret[2] # RowError(Last(cli.ret[4]))
    /\ cli.ret[2] = abs(cli.fc)

Between(x, a, b) == QLe(QMin(a, b), x) /\ QLe(x, QMax(a, b))

\* a call of bisection or regula falsi that entered the loop with
\* f(a)*f(b) < 0 and tol > 0
EnteredBracketed(s) ==
    /\ Bracketing(s) /\ ~Raised(s) /\ QLt(Zero, s.tol)
    /\ QLt(QMul(Eval(s.f, A0(s)), Eval(s.f, B0(s))), Zero)

\* the bracket <<a, b>> after k replacements
BracketAfter(s, k) ==
    IF k < Len(s.rows) THEN <<s.rows[k + 1][2], s.rows[k + 1][3]>> ELSE <<s.a, s.b>>

SignChange(s, br) == QLt(QMul(Eval(s.f, br[1]), Eval(s.f, br[2])), Zero)

\* the k-th replacement put c in place of the endpoint with f of c's sign
ReplacedOne(s, k) ==
    LET old == BracketAfter(s, k - 1)
        new == BracketAfter(s, k)
        c == s.rows[k][4]
        fc == s.rows[k][5]
    IN  \/ new = <<c, old[2]>> /\ QSign(fc) = QSign(Eval(s.f, old[1]))
        \/ new = <<old[1], c>> /\ QSign(fc) = QSign(Eval(s.f, old[2]))

\* the bracket after the k-th replacement lies in the one before it
Contained(s, k) ==
    LET old == BracketAfter(s, k - 1)
        new == BracketAfter(s, k)
    IN  Between(new[1], old[1], old[2]) /\ Between(new[2], old[1], old[2])

SignChangeKept(s) ==
    /\ \A k \in 0..Replacements(s) : SignChange(s, BracketAfter(s, k))
    /\ s.fa = Eval(s.f, s.a)
    /\ s.fb = Eval(s.f, s.b)
    /\ \A k \in 1..Replacements(s) : ReplacedOne(s, k)

\* C8 (as claimed): bisection and regula falsi entered with f(a)*f(b) < 0 and
\* tol > 0 keep f(a)*f(b) < 0, fa = f(a) and fb = f(b) at the start of every
\* pass and after every replacement; c replaces exactly the endpoint whose
\* function value has the sign of f(c), and the new bracket lies in the
\* previous one.
C8_BracketContained ==
    \A s \in Frames :
        EnteredBracketed(s) =>
            /\ SignChangeKept(s)
            /\ \A k \in 1..Replacements(s) : Contained(s, k)

\* C8 (amended): as claimed for the sign change, the cached fa and fb and the
\* replacement of exactly one endpoint; the new bracket lies in the previous
\* one in bisection, while in regula falsi the interpolated c is rounded and
\* can fall outside [a, b], and the new bracket with it.
C8_SignChangeKept ==
    \A s \in Frames :
        EnteredBracketed(s) =>
            /\ SignChangeKept(s)
            /\ s.method = "bisection" => \A k \in 1..Replacements(s) : Contained(s, k)

\* regula falsi has replaced both endpoints
C8_Witness ==
    /\ cli.method = "regula_falsi" /\ EnteredBracketed(cli)
    /\ Replacements(cli) >= 2
    /\ cli.a # A0(cli) /\ cli.b # B0(cli)

\* regula falsi has put an endpoint outside the bracket it replaced it in
C8_OutsideWitness ==
    /\ cli.method = "regula_falsi" /\ EnteredBracketed(cli)
    /\ \E k \in 1..Replacements(cli) : ~Contained(cli, k)
    /\ SignChangeKept(cli)

\* C9 (as claimed): Newton-Raphson raises the zero-derivative error only at
\* an iterate that has not met the convergence predicate: an iterate with
\* |f(x)| < tol is returned, not raised on.
C9_RaisesOnlyUnconverged ==
    \A s \in Frames :
        (s.method = "newton" /\ Raised(s) /\ s.exc[1] = "ZeroDivisionError")
            => ~QLt(abs(s.fx), s.tol)

NewtonStep(s, t) ==
    (s.method = "newton" /\ InLoop(s))
        => IF Eval(s.df, s.x) = Zero
           THEN /\ Raised(t) /\ t.exc[1] = "ZeroDivisionError"
                /\ t.rows = s.rows /\ t.ret = NoRet
           ELSE /\ ~Raised(t)
                /\ Len(t.rows) = Len(s.rows) + 1
                /\ RowConverged(t, Last(t.rows))
                      => /\ Returned(t)
                         /\ t.ret[1] = RowEstimate(t, Last(t.rows))
                         /\ t.ret[3] = Len(t.rows)

\* C9 (amended): a pass of Newton-Raphson raises the zero-derivative error
\* whenever f'(x) = 0 exactly at the current iterate, before the convergence
\* predicate is looked at, so also when |f(x)| < tol (f(x) = x^2 at x = 0
\* raises); when f'(x) # 0 the pass appends its record and returns a
\* converged result if |f(x)| < tol or |x_new - x| < tol.
C9_ZeroDerivativeFirst ==
    [][NewtonStep(cli, cli') /\ NewtonStep(web, web')]_vars

\* Newton-Raphson has raised at an iterate with |f(x)| < tol
C9_Witness ==
    /\ cli.method = "newton" /\ Raised(cli) /\ cli.exc[1] = "ZeroDivisionError"
    /\ cli.f = Sq /\ cli.x = Zero
    /\ QLt(abs(cli.fx), cli.tol)

====
